---- MODULE Spec2Model ----
(***************************************************************************)
(* A model of adb: the pairwise sequencer (pairs.rs), the coordinate       *)
(* parser and record model (model.rs), the dist command (main.rs), and the *)
(* search index engine (search.rs, database.rs).                           *)
(*                                                                         *)
(* Text is modelled as a sequence of one-character strings, so that        *)
(* tokenising, case folding and comparing are computed, not assumed.       *)
(***************************************************************************)
EXTENDS Integers, Sequences, FiniteSets, TLC

VARIABLES
    pc,                 \* position of the running operation
    overflow_checks,    \* build profile: TRUE = debug (checked arithmetic)
    source,             \* pairs.rs: the slice handed to pairs()
    iter,               \* pairs.rs: the PairsIter (cursor, source)
    yielded,            \* pairs.rs: the items next() has returned so far
    input,              \* model.rs: the text handed to Coords::from_str
    parsed,             \* model.rs: the Result of Coords::from_str
    identifiers,        \* main.rs: the route tokens of the dist command
    dist,               \* main.rs: print_distance's running total, meters
    preformat_records,  \* main.rs: the buffered leg rows
    dist_column_width,  \* main.rs: widest formatted leg distance
    stdout,             \* main.rs: lines printed to standard output
    stderr,             \* main.rs: lines printed to standard error
    airports_csv,       \* search.rs: the rows of the airports table
    runways_csv,        \* search.rs: the rows of the runways table
    disk,               \* search.rs: the store directory on disk
    call,               \* search.rs: the arguments of the last initialize call
    built_from,         \* search.rs: the source the store on disk was created from
    db,                 \* database.rs: the open Database (its reader), if any
    query,              \* database.rs: the text of the last query
    result,             \* database.rs: what the last by_identifier returned
    search_query,       \* database.rs: the text of the last search
    search_result       \* database.rs: what the last search returned

pairsVars == <<source, yielded>>
coordsVars == <<input, parsed>>
distVars == <<identifiers, dist, preformat_records, dist_column_width, stdout, stderr>>
indexVars ==
    <<airports_csv, runways_csv, disk, call, built_from, db, query, result,
      search_query, search_result>>

vars == <<pc, overflow_checks, iter, pairsVars, coordsVars, distVars, indexVars>>

(***************************************************************************)
(* Bounds of the model.                                                    *)
(***************************************************************************)
\* longest slice handed to pairs()
MaxLen == 4
\* longest text handed to Coords::from_str
MaxStrLen == 5
\* most tokens on a dist command line
MaxRoute == 3
\* most rows of an airports table
MaxAirports == 2
\* most rows of a runways table
MaxRunways == 2

(***************************************************************************)
(* Text helpers.                                                           *)
(***************************************************************************)
\* The characters of the model in ASCII order (str's Ord is bytewise).
AsciiOrder ==
    <<" ", ",", "-", ".", "0", "1", "2", "3", "4", "5", "6", "7", "8", "9",
      ":", "A", "B", "C", "D", "E", "F", "G", "H", "I", "J", "K", "L", "M",
      "N", "O", "P", "Q", "R", "S", "T", "U", "V", "W", "X", "Y", "Z",
      "a", "b", "c", "d", "e", "f", "g", "h", "i", "j", "k", "l", "m",
      "n", "o", "p", "q", "r", "s", "t", "u", "v", "w", "x", "y", "z">>

CodeTable ==
    [c \in {AsciiOrder[i] : i \in 1..Len(AsciiOrder)} |->
        CHOOSE i \in 1..Len(AsciiOrder) : AsciiOrder[i] = c]

Code(c) == CodeTable[c]

IsUpper(c) == Code(c) >= Code("A") /\ Code(c) <= Code("Z")
IsLower(c) == Code(c) >= Code("a") /\ Code(c) <= Code("z")
IsDigit(c) == Code(c) >= Code("0") /\ Code(c) <= Code("9")

\* u8::to_ascii_uppercase / to_ascii_lowercase on one character
CharUpper(c) == IF IsLower(c) THEN AsciiOrder[Code(c) - Code("a") + Code("A")] ELSE c
CharLower(c) == IF IsUpper(c) THEN AsciiOrder[Code(c) - Code("A") + Code("a")] ELSE c

to_ascii_uppercase(s) == [i \in 1..Len(s) |-> CharUpper(s[i])]

\* str::cmp: "Less", "Equal" or "Greater", bytewise lexicographic
RECURSIVE StrCmp(_, _)
StrCmp(a, b) ==
    IF a = <<>> /\ b = <<>> THEN "Equal"
    ELSE IF a = <<>> THEN "Less"
    ELSE IF b = <<>> THEN "Greater"
    ELSE IF Code(Head(a)) < Code(Head(b)) THEN "Less"
    ELSE IF Code(Head(a)) > Code(Head(b)) THEN "Greater"
    ELSE StrCmp(Tail(a), Tail(b))

\* All sequences over S of length lo..hi
SeqsOf(S, lo, hi) == UNION {[1..n -> S] : n \in lo..hi}

(***************************************************************************)
(* pairs.rs                                                                *)
(***************************************************************************)
\* usize arithmetic wraps modulo 2^w in a release build; w is 64 or 32 on
\* the real targets, and only the wrap of 0 - 1 matters here.
UsizeModulus == 2^16

\* PairsIter::new. source.len() - 1 is a usize subtraction: with overflow
\* checks it panics on an empty slice, without them it wraps.
PairsIter_new(src, checks) ==
    IF Len(src) = 0 /\ checks
    THEN [panic |-> TRUE, cursor |-> [start |-> 0, end |-> 0], source |-> src]
    ELSE [panic |-> FALSE,
          cursor |-> [start |-> 0, end |-> (Len(src) - 1) % UsizeModulus],
          source |-> src]

\* A variant of next() that pairs each item with itself.
PairsIter_next_selfpair(it) ==
    IF it.cursor.start < it.cursor.end
    THEN LET idx == it.cursor.start IN
         IF idx + 1 > Len(it.source)
         THEN [kind |-> "panic", item |-> <<>>, it |-> it]
         ELSE [kind |-> "some",
               item |-> <<it.source[idx + 1], it.source[idx + 1]>>,
               it |-> [it EXCEPT !.cursor.start = idx + 1]]
    ELSE [kind |-> "none", item |-> <<>>, it |-> it]

\* PairsIter::next. Range::next yields start and advances it while
\* start < end; the closure indexes source[idx] and source[idx + 1]
\* (0-based), each a bounds-checked access that panics when out of range.
PairsIter_next(it) ==
    IF it.cursor.start < it.cursor.end
    THEN LET idx == it.cursor.start IN
         IF idx >= Len(it.source) \/ idx + 1 >= Len(it.source)
         THEN [kind |-> "panic", item |-> <<>>, it |-> it]
         ELSE [kind |-> "some",
               item |-> <<it.source[idx + 1], it.source[idx + 2]>>,
               it |-> [it EXCEPT !.cursor.start = idx + 1]]
    ELSE [kind |-> "none", item |-> <<>>, it |-> it]

NoIter == [panic |-> FALSE, cursor |-> [start |-> 0, end |-> 0], source |-> <<>>]

\* The items a slice may hold.
Items == {"a", "b", "c"}

\* The parts of the state an operation does not use, at rest.
PairsIdle == source = <<>> /\ yielded = <<>>

CoordsIdle ==
    /\ input = <<>>
    /\ parsed = [ok |-> FALSE, err |-> "none", latitude |-> 0, longitude |-> 0]

DistIdle ==
    /\ identifiers = <<>>
    /\ dist = 0
    /\ preformat_records = <<>>
    /\ dist_column_width = 0
    /\ stdout = <<>>
    /\ stderr = <<>>

IndexIdle ==
    /\ airports_csv = <<>>
    /\ runways_csv = <<>>
    /\ disk = [exists |-> FALSE, docs |-> <<>>]
    /\ call = <<>>
    /\ built_from = <<>>
    /\ db = [open |-> FALSE, docs |-> <<>>]
    /\ query = <<>>
    /\ result = [kind |-> "none", airports |-> <<>>]
    /\ search_query = <<>>
    /\ search_result = [kind |-> "none", airports |-> <<>>]

InitPairs ==
    /\ pc = "start"
    /\ overflow_checks \in BOOLEAN
    /\ source \in SeqsOf(Items, 0, MaxLen)
    /\ iter = NoIter
    /\ yielded = <<>>
    /\ CoordsIdle
    /\ DistIdle
    /\ IndexIdle

\* let it = slice.pairs();
PairsCall ==
    /\ pc = "start"
    /\ LET it == PairsIter_new(source, overflow_checks) IN
       /\ iter' = it
       /\ pc' = IF it.panic THEN "panic" ELSE "iterating"
    /\ UNCHANGED <<overflow_checks, pairsVars, coordsVars, distVars, indexVars>>

\* one it.next() of a loop that drains the iterator
PairsStep ==
    /\ pc = "iterating"
    /\ LET r == PairsIter_next(iter) IN
       /\ iter' = r.it
       /\ yielded' = IF r.kind = "some" THEN Append(yielded, r.item) ELSE yielded
       /\ pc' = CASE r.kind = "some" -> "iterating"
                  [] r.kind = "none" -> "done"
                  [] OTHER -> "panic"
    /\ UNCHANGED <<overflow_checks, source, coordsVars, distVars, indexVars>>

NextPairs == PairsCall \/ PairsStep

SpecPairs == InitPairs /\ [][NextPairs]_vars

\* The adjacent pairs of a sequence, as the contract states them.
AdjacentPairs(s) == [i \in 1..(Len(s) - 1) |-> <<s[i], s[i + 1]>>]

\* C1: for a slice of length N >= 2, pairs() yields the N-1 adjacent pairs
\* (item[i], item[i+1]) in increasing order of i and then ends: what has
\* been yielded is always a prefix of them, no call panics, and when the
\* iterator is exhausted all N-1 have been yielded.
C1_AdjacentPairs ==
    Len(source) >= 2 =>
        /\ pc # "panic"
        /\ Len(yielded) <= Len(source) - 1
        /\ yielded = SubSeq(AdjacentPairs(source), 1, Len(yielded))
        /\ (pc = "done" => yielded = AdjacentPairs(source))

C1_Witness ==
    /\ pc = "done"
    /\ Len(source) = 3
    /\ source[1] # source[2] /\ source[2] # source[3]
    /\ Len(yielded) = 2

\* C2: pairs() on a slice of length 0 or 1, iterated to the end, yields no
\* pair and never panics.
C2_ShortSliceNoError ==
    Len(source) <= 1 => (pc # "panic" /\ yielded = <<>>)


(***************************************************************************)
(* model.rs: Coords::from_str                                              *)
(***************************************************************************)
\* char::is_ascii_whitespace: space, tab, line feed, form feed, return
AsciiWhitespace == {" ", "\t", "\n", "\f", "\r"}

\* The non-empty maximal runs of s that hold no character of seps, in order
\* (str::split_ascii_whitespace when seps is AsciiWhitespace).
RECURSIVE SplitOn(_, _, _)
SplitOn(s, seps, cur) ==
    IF s = <<>> THEN (IF cur = <<>> THEN <<>> ELSE <<cur>>)
    ELSE IF Head(s) \in seps
         THEN (IF cur = <<>> THEN <<>> ELSE <<cur>>) \o SplitOn(Tail(s), seps, <<>>)
         ELSE SplitOn(Tail(s), seps, Append(cur, Head(s)))

split_ascii_whitespace(s) == SplitOn(s, AsciiWhitespace, <<>>)

\* The decimal digits of ds read as a natural number.
RECURSIVE DigitsValue(_)
DigitsValue(ds) ==
    IF ds = <<>> THEN 0
    ELSE 10 * DigitsValue(SubSeq(ds, 1, Len(ds) - 1)) + (Code(ds[Len(ds)]) - Code("0"))

\* <f64 as FromStr>::from_str on the characters of the model: an optional
\* sign, then digits with at most one decimal point and at least one digit.
\* The value is num / 10^scale.
ParseF64(tok) ==
    LET signed == tok # <<>> /\ tok[1] \in {"-", "+"}
        body == IF signed THEN Tail(tok) ELSE tok
        digits == SelectSeq(body, LAMBDA c : c # ".")
        ndots == Len(body) - Len(digits)
        wellformed == /\ \A i \in 1..Len(digits) : digits[i] \in {"0", "1", "2", "3", "4", "5", "6", "7", "8", "9"}
                      /\ Len(digits) >= 1
                      /\ ndots <= 1
        dotpos == IF ndots = 1 THEN CHOOSE i \in 1..Len(body) : body[i] = "." ELSE Len(body)
    IN IF wellformed
       THEN [ok |-> TRUE,
             num |-> (IF signed /\ tok[1] = "-" THEN -1 ELSE 1) * DigitsValue(digits),
             scale |-> Len(body) - dotpos]
       ELSE [ok |-> FALSE, num |-> 0, scale |-> 0]

CoordsErr(e) == [ok |-> FALSE, err |-> e, latitude |-> 0, longitude |-> 0]

NoResult == CoordsErr("none")

\* Coords::from_str
Coords_from_str(s) ==
    LET values == split_ascii_whitespace(s) IN
    IF Len(values) < 1 THEN CoordsErr("MissingComponent")
    ELSE LET latitude == ParseF64(values[1]) IN
         IF ~latitude.ok THEN CoordsErr("Float")
         ELSE IF Len(values) < 2 THEN CoordsErr("MissingComponent")
         ELSE LET longitude == ParseF64(values[2]) IN
              IF ~longitude.ok THEN CoordsErr("Float")
              ELSE IF Len(values) > 2 THEN CoordsErr("TooManyComponents")
              ELSE [ok |-> TRUE, err |-> "none",
                    latitude |-> [num |-> latitude.num, scale |-> latitude.scale],
                    longitude |-> [num |-> longitude.num, scale |-> longitude.scale]]

\* The characters a text handed to the parser is drawn from.
CoordChars == {"1", ".", "-", " ", ",", "x"}

InitCoords ==
    /\ pc = "start"
    /\ overflow_checks = FALSE
    /\ iter = NoIter
    /\ input \in SeqsOf(CoordChars, 0, MaxStrLen)
    /\ parsed = NoResult
    /\ PairsIdle
    /\ DistIdle
    /\ IndexIdle

\* let parsed = input.parse::<Coords>();
CoordsParse ==
    /\ pc = "start"
    /\ parsed' = Coords_from_str(input)
    /\ pc' = "done"
    /\ UNCHANGED <<overflow_checks, iter, pairsVars, input, distVars, indexVars>>

NextCoords == CoordsParse

SpecCoords == InitCoords /\ [][NextCoords]_vars

\* The fields of a text whose separators are whitespace and/or a comma.
SeparatedFields(s) == SplitOn(s, AsciiWhitespace \cup {","}, <<>>)

\* C5: Coords parsing accepts a text if and only if it consists of exactly
\* two floating-point numbers separated by whitespace and/or a comma; on
\* success latitude is the first number and longitude the second.
C5_AcceptsTwoNumbers ==
    pc = "done" =>
        LET fields == SeparatedFields(input)
            two == /\ Len(fields) = 2
                   /\ ParseF64(fields[1]).ok
                   /\ ParseF64(fields[2]).ok
        IN /\ parsed.ok <=> two
           /\ parsed.ok =>
                /\ parsed.latitude.num = ParseF64(fields[1]).num
                /\ parsed.longitude.num = ParseF64(fields[2]).num


(***************************************************************************)
(* main.rs: the dist command                                               *)
(***************************************************************************)
\* The generated AIRPORTS table: build.rs sorts the rows by ident and
\* writes each coordinate with one decimal, so latitude and longitude are
\* held here in tenths of a degree.
AIRPORTS ==
    <<[ident |-> <<"E", "G", "L", "L">>, coordinates |-> [latitude |-> 515, longitude |-> -5]],
      [ident |-> <<"K", "E", "B">>, coordinates |-> [latitude |-> 594, longitude |-> -1519]],
      [ident |-> <<"P", "A", "N", "C">>, coordinates |-> [latitude |-> 612, longitude |-> -1499]],
      [ident |-> <<"X", "A", "N", "T">>, coordinates |-> [latitude |-> -594, longitude |-> 281]]>>

\* <[T]>::binary_search_by over AIRPORTS with probe.ident.cmp(&identifier):
\* the index of a match, or 0 for Err.
RECURSIVE BinarySearch(_, _, _)
BinarySearch(identifier, left, right) ==
    IF left >= right THEN 0
    ELSE LET mid == left + (right - left) \div 2
             c == StrCmp(AIRPORTS[mid + 1].ident, identifier)
         IN CASE c = "Less" -> BinarySearch(identifier, mid + 1, right)
              [] c = "Greater" -> BinarySearch(identifier, left, mid)
              [] OTHER -> mid + 1

\* find_by_identifier: the airport, or the "{} not found" line written to
\* standard error before process::exit(1).
find_by_identifier(identifier) ==
    LET upper == to_ascii_uppercase(identifier)
        x == BinarySearch(upper, 0, Len(AIRPORTS))
    IN IF x # 0
       THEN [found |-> TRUE, airport |-> AIRPORTS[x], message |-> <<>>]
       ELSE [found |-> FALSE, airport |-> AIRPORTS[1],
             message |-> upper \o <<" ", "n", "o", "t", " ", "f", "o", "u", "n", "d">>]

Abs(x) == IF x < 0 THEN -x ELSE x

Isqrt(n) == CHOOSE r \in 0..5100 : r * r <= n /\ (r + 1) * (r + 1) > n

\* meters along the surface per tenth of a degree of arc
MetersPerTenthDegree == 11119

\* The length in meters of the arc between two points: what geoutils
\* computes, reduced to integer arithmetic on tenths of a degree.
ArcMeters(p, q) ==
    LET dlat == Abs(p.latitude - q.latitude)
        raw == Abs(p.longitude - q.longitude)
        dlon == IF raw > 1800 THEN 3600 - raw ELSE raw
    IN MetersPerTenthDegree * Isqrt(dlat * dlat + dlon * dlon)

\* Vincenty's iteration does not converge for (nearly) antipodal points.
Antipodal(p, q) ==
    /\ p.latitude + q.latitude = 0
    /\ Abs(p.longitude - q.longitude) = 1800

\* geoutils Location::distance_to: Result<Distance, String>
Location_distance_to(p, q) ==
    IF Antipodal(p, q)
    THEN [ok |-> FALSE, meters |-> 0]
    ELSE [ok |-> TRUE, meters |-> ArcMeters(p, q)]

\* geoutils Location::haversine_distance_to: always a Distance
Location_haversine_distance_to(p, q) == ArcMeters(p, q)

\* Waypoint::distance_to, on the coordinates of the two waypoints
Waypoint_distance_to(p, q) ==
    LET r == Location_distance_to(p, q) IN
    IF r.ok THEN r.meters ELSE Location_haversine_distance_to(p, q)

\* METERS_PER_NAUTICAL_MILE = 1852.001, in millimeters
MillimetersPerNauticalMile == 1852001

\* One decimal digit of a long division by MillimetersPerNauticalMile.
DivStep(qr) ==
    [q |-> qr.q * 10 + (qr.r * 10) \div MillimetersPerNauticalMile,
     r |-> (qr.r * 10) % MillimetersPerNauticalMile]

\* format!("{:.01}", meters / METERS_PER_NAUTICAL_MILE): the value in tenths
\* of a nautical mile, rounded to nearest.
NmTenths(meters) ==
    LET d0 == [q |-> meters \div MillimetersPerNauticalMile,
               r |-> meters % MillimetersPerNauticalMile]
        d4 == DivStep(DivStep(DivStep(DivStep(d0))))
    IN d4.q + (IF 2 * d4.r >= MillimetersPerNauticalMile THEN 1 ELSE 0)

RECURSIVE NumDigits(_)
NumDigits(n) == IF n < 10 THEN 1 ELSE 1 + NumDigits(n \div 10)

\* formatted_distance.len(): the integer digits, the point, one decimal
FormattedLen(tenths) == NumDigits(tenths \div 10) + 2

Max(a, b) == IF a >= b THEN a ELSE b

\* A variant of the accumulation that overwrites the total with the leg.
AddLeg_overwrite(total, leg) == leg

\* dist += leg
AddLeg(total, leg) == total + leg

\* The tokens a route may be made of: identifiers of the table in either
\* case, an unknown identifier, and a coordinate pair.
RouteTokens ==
    {<<"E", "G", "L", "L">>, <<"K", "E", "B">>, <<"k", "e", "b">>,
     <<"P", "A", "N", "C">>, <<"X", "A", "N", "T">>,
     <<"Z", "Z", "Z", "Z", "Z">>, <<"1", " ", "1">>}

\* clap's min_values(2) and the stdin check: a route has at least two tokens
MinRoute == 2

InitDist ==
    /\ pc = "start"
    /\ overflow_checks \in BOOLEAN
    /\ iter = NoIter
    /\ PairsIdle
    /\ CoordsIdle
    /\ identifiers \in SeqsOf(RouteTokens, MinRoute, MaxRoute)
    /\ dist = 0
    /\ preformat_records = <<>>
    /\ dist_column_width = 0
    /\ stdout = <<>>
    /\ stderr = <<>>
    /\ IndexIdle

\* print_distance, up to the loop: identifiers.pairs().map(..) is lazy, so
\* nothing is resolved yet.
DistBegin ==
    /\ pc = "start"
    /\ LET it == PairsIter_new(identifiers, overflow_checks) IN
       /\ iter' = it
       /\ pc' = IF it.panic THEN "panic" ELSE "loop"
    /\ UNCHANGED <<overflow_checks, pairsVars, coordsVars, distVars, indexVars>>

\* One turn of `for (a, b) in airport_pairs`: the next pair is taken, both
\* tokens are resolved (a first), the leg is computed and unwrapped, and the
\* row is buffered. A miss exits the process; an Err leg panics.
DistLeg ==
    /\ pc = "loop"
    /\ LET r == PairsIter_next(iter) IN
       /\ iter' = r.it
       /\ IF r.kind = "none"
          THEN /\ pc' = "print"
               /\ UNCHANGED <<dist, preformat_records, dist_column_width, stderr>>
          ELSE IF r.kind = "panic"
          THEN /\ pc' = "panic"
               /\ UNCHANGED <<dist, preformat_records, dist_column_width, stderr>>
          ELSE LET a == find_by_identifier(r.item[1])
                   b == find_by_identifier(r.item[2])
               IN IF ~a.found
                  THEN /\ pc' = "exit"
                       /\ stderr' = Append(stderr, a.message)
                       /\ UNCHANGED <<dist, preformat_records, dist_column_width>>
                  ELSE IF ~b.found
                  THEN /\ pc' = "exit"
                       /\ stderr' = Append(stderr, b.message)
                       /\ UNCHANGED <<dist, preformat_records, dist_column_width>>
                  ELSE LET leg == Location_distance_to(a.airport.coordinates,
                                                       b.airport.coordinates)
                       IN IF ~leg.ok
                          THEN /\ pc' = "panic"
                               /\ UNCHANGED <<dist, preformat_records,
                                              dist_column_width, stderr>>
                          ELSE LET formatted_distance == NmTenths(leg.meters) IN
                               /\ dist_column_width' =
                                      Max(dist_column_width, FormattedLen(formatted_distance))
                               /\ preformat_records' =
                                      Append(preformat_records,
                                             <<a.airport.ident, b.airport.ident,
                                               formatted_distance>>)
                               /\ dist' = AddLeg(dist, leg.meters)
                               /\ pc' = "loop"
                               /\ UNCHANGED stderr
    /\ UNCHANGED <<overflow_checks, pairsVars, coordsVars, identifiers, stdout, indexVars>>

\* One turn of `for (a, b, dist) in preformat_records`: a leg row is printed.
DistPrintRow ==
    /\ pc = "print"
    /\ preformat_records # <<>>
    /\ stdout' = Append(stdout, [kind |-> "leg",
                                 a |-> Head(preformat_records)[1],
                                 b |-> Head(preformat_records)[2],
                                 tenths |-> Head(preformat_records)[3],
                                 width |-> dist_column_width])
    /\ preformat_records' = Tail(preformat_records)
    /\ UNCHANGED <<pc, overflow_checks, iter, pairsVars, coordsVars,
                   identifiers, dist, dist_column_width, stderr, indexVars>>

\* println!("\nTotal distance: {:.01} nm", dist / METERS_PER_NAUTICAL_MILE)
DistPrintTotal ==
    /\ pc = "print"
    /\ preformat_records = <<>>
    /\ stdout' = Append(stdout, [kind |-> "total", a |-> <<>>, b |-> <<>>,
                                 tenths |-> NmTenths(dist), width |-> 0])
    /\ pc' = "done"
    /\ UNCHANGED <<overflow_checks, iter, pairsVars, coordsVars,
                   identifiers, dist, preformat_records, dist_column_width, stderr,
                   indexVars>>

NextDist == DistBegin \/ DistLeg \/ DistPrintRow \/ DistPrintTotal

SpecDist == InitDist /\ [][NextDist]_vars


\* What the route contract calls resolvable: a known identifier, or else a
\* coordinate pair.
Resolvable(token) == find_by_identifier(token).found \/ Coords_from_str(token).ok

Terminated == pc \in {"done", "exit", "panic"}

\* C3: if any token of the route cannot be resolved, the command ends with
\* a failure naming such a token, and no leg row and no total line has been
\* printed; a leg row is only ever printed once every token is resolved.
C3_UnresolvedFailsFast ==
    /\ (Terminated /\ \E i \in 1..Len(identifiers) : ~Resolvable(identifiers[i])) =>
            /\ pc = "exit"
            /\ stdout = <<>>
            /\ \E i \in 1..Len(identifiers) :
                   /\ ~Resolvable(identifiers[i])
                   /\ stderr = <<find_by_identifier(identifiers[i]).message>>
    /\ stdout # <<>> => \A i \in 1..Len(identifiers) : Resolvable(identifiers[i])

\* C4: a route fails on a token only when the identifier lookup and the
\* coordinate-pair parse both fail for it: a token that is no known
\* identifier but parses as a coordinate pair does not end the route.
C4_CoordinateTokenResolves ==
    pc = "exit" =>
        \E i \in 1..Len(identifiers) :
            /\ ~Resolvable(identifiers[i])
            /\ stderr = <<find_by_identifier(identifiers[i]).message>>

Coordinates(token) == find_by_identifier(token).airport.coordinates

RECURSIVE SumSeq(_)
SumSeq(s) == IF s = <<>> THEN 0 ELSE Head(s) + SumSeq(Tail(s))

\* The legs of a route with the fallback of Waypoint::distance_to.
FallbackLegs(ids) ==
    [i \in 1..(Len(ids) - 1) |->
        Waypoint_distance_to(Coordinates(ids[i]), Coordinates(ids[i + 1]))]

\* C6: computing a leg never fails: where Vincenty's formula reports
\* failure the haversine distance of the pair is used, so a route whose
\* tokens all name airports never panics and completes with the total of
\* its legs.
C6_LegNeverFails ==
    (\A i \in 1..Len(identifiers) : find_by_identifier(identifiers[i]).found) =>
        /\ pc # "panic"
        /\ pc = "done" =>
               stdout[Len(stdout)].tenths = NmTenths(SumSeq(FallbackLegs(identifiers)))

\* The legs between consecutive waypoints of a route, in meters.
ConsecutiveLegs(ids) ==
    [i \in 1..(Len(ids) - 1) |->
        Location_distance_to(Coordinates(ids[i]), Coordinates(ids[i + 1])).meters]

\* C7: for a route of N resolved waypoints the reported total is the sum of
\* exactly the N-1 legs between consecutive waypoints, summed in meters and
\* converted to nautical miles once; the N-1 leg rows printed before it are
\* those legs in order.
C7_TotalIsSumOfLegs ==
    pc = "done" =>
        LET n == Len(identifiers)
            legs == ConsecutiveLegs(identifiers)
        IN /\ Len(stdout) = n
           /\ \A i \in 1..(n - 1) :
                  /\ stdout[i].kind = "leg"
                  /\ stdout[i].a = to_ascii_uppercase(identifiers[i])
                  /\ stdout[i].b = to_ascii_uppercase(identifiers[i + 1])
                  /\ stdout[i].tenths = NmTenths(legs[i])
           /\ stdout[n].kind = "total"
           /\ dist = SumSeq(legs)
           /\ stdout[n].tenths = NmTenths(SumSeq(legs))

\* A three-point route has been totalled whose direct distance from the
\* first to the last waypoint differs from the sum of its two legs.
C7_Witness ==
    /\ pc = "done"
    /\ Len(identifiers) = 3
    /\ Len(stdout) = 3
    /\ stdout[1].tenths > 0 /\ stdout[2].tenths > 0
    /\ Location_distance_to(Coordinates(identifiers[1]),
                            Coordinates(identifiers[3])).meters # dist


(***************************************************************************)
(* model.rs: the record model                                              *)
(***************************************************************************)
\* Option<T>: <<>> is None, <<v>> is Some(v).
None == <<>>
Some(v) == <<v>>

\* A row of the airports table as csv + serde read it (AirportTemplate);
\* wellformed is FALSE for a row that does not deserialize.
AirportRow(ok, ident, name, elevation, lat, lon) ==
    [wellformed |-> ok, ident |-> ident, kind |-> <<"s">>, name |-> name,
     elevation_ft |-> elevation, continent |-> <<"N", "A">>,
     iso_country |-> <<"U", "S">>, iso_region |-> <<"U", "S", "-", "A", "K">>,
     municipality |-> <<"M">>, gps_code |-> ident, iata_code |-> <<>>,
     local_code |-> <<>>, latitude_deg |-> lat, longitude_deg |-> lon]

\* A row of the runways table (RunwayTemplate).
RunwayRow(ok, airport_ident, length, lighted, closed, le, he) ==
    [wellformed |-> ok, airport_ident |-> airport_ident, length_ft |-> length,
     lighted |-> lighted, closed |-> closed, le_ident |-> le, he_ident |-> he]

\* Airport::from_template
Airport_from_template(template) ==
    [ident |-> template.ident,
     kind |-> template.kind,
     name |-> template.name,
     elevation_ft |-> template.elevation_ft,
     continent |-> template.continent,
     iso_country |-> template.iso_country,
     iso_region |-> template.iso_region,
     municipality |-> template.municipality,
     gps_code |-> template.gps_code,
     iata_code |-> template.iata_code,
     local_code |-> template.local_code,
     coordinates |-> [latitude |-> template.latitude_deg,
                      longitude |-> template.longitude_deg],
     runways |-> <<>>]

\* impl From<RunwayTemplate> for Runway
Runway_from(template) ==
    [airport |-> template.airport_ident,
     name |-> template.le_ident \o <<"/">> \o template.he_ident,
     length |-> template.length_ft,
     is_closed |-> template.closed = 1,
     is_lighted |-> template.lighted = 1]

\* serde_json::to_string of a Runway: its fields by name, in order.
Runway_to_json(r) ==
    <<<<"airport", r.airport>>, <<"name", r.name>>, <<"length", r.length>>,
      <<"is_closed", r.is_closed>>, <<"is_lighted", r.is_lighted>>>>

\* serde_json::to_string of an Airport: its fields by name, in order.
Airport_to_json(a) ==
    <<<<"ident", a.ident>>, <<"kind", a.kind>>, <<"name", a.name>>,
      <<"elevation_ft", a.elevation_ft>>, <<"continent", a.continent>>,
      <<"iso_country", a.iso_country>>, <<"iso_region", a.iso_region>>,
      <<"municipality", a.municipality>>, <<"gps_code", a.gps_code>>,
      <<"iata_code", a.iata_code>>, <<"local_code", a.local_code>>,
      <<"coordinates", <<<<"latitude", a.coordinates.latitude>>,
                         <<"longitude", a.coordinates.longitude>>>>>>,
      <<"runways", [i \in 1..Len(a.runways) |-> Runway_to_json(a.runways[i])]>>>>

HasKey(json, key) == \E i \in 1..Len(json) : json[i][1] = key
Member(json, key) == json[CHOOSE i \in 1..Len(json) : json[i][1] = key][2]

RunwayKeys == {"airport", "name", "length", "is_closed", "is_lighted"}
AirportKeys ==
    {"ident", "kind", "name", "elevation_ft", "continent", "iso_country",
     "iso_region", "municipality", "gps_code", "iata_code", "local_code",
     "coordinates", "runways"}

Runway_from_json(json) ==
    [airport |-> Member(json, "airport"), name |-> Member(json, "name"),
     length |-> Member(json, "length"), is_closed |-> Member(json, "is_closed"),
     is_lighted |-> Member(json, "is_lighted")]

\* serde_json::from_slice::<Airport>: every field is looked up by name; a
\* payload that lacks one does not deserialize.
Airport_from_json(json) ==
    IF /\ \A k \in AirportKeys : HasKey(json, k)
       /\ \A k \in {"latitude", "longitude"} : HasKey(Member(json, "coordinates"), k)
       /\ \A i \in 1..Len(Member(json, "runways")) :
              \A k \in RunwayKeys : HasKey(Member(json, "runways")[i], k)
    THEN Some([ident |-> Member(json, "ident"),
               kind |-> Member(json, "kind"),
               name |-> Member(json, "name"),
               elevation_ft |-> Member(json, "elevation_ft"),
               continent |-> Member(json, "continent"),
               iso_country |-> Member(json, "iso_country"),
               iso_region |-> Member(json, "iso_region"),
               municipality |-> Member(json, "municipality"),
               gps_code |-> Member(json, "gps_code"),
               iata_code |-> Member(json, "iata_code"),
               local_code |-> Member(json, "local_code"),
               coordinates |->
                   [latitude |-> Member(Member(json, "coordinates"), "latitude"),
                    longitude |-> Member(Member(json, "coordinates"), "longitude")],
               runways |-> [i \in 1..Len(Member(json, "runways")) |->
                               Runway_from_json(Member(json, "runways")[i])]])
    ELSE None

(***************************************************************************)
(* search.rs: building and opening the store                               *)
(***************************************************************************)
\* HashMap::entry(key).or_default().push(value)
HashMap_push(map, key, value) ==
    IF key \in DOMAIN map
    THEN [map EXCEPT ![key] = Append(@, value)]
    ELSE [k \in DOMAIN map \cup {key} |-> IF k = key THEN <<value>> ELSE map[k]]

\* A variant of remove that leaves the entry in the map.
HashMap_remove_keep(map, key) ==
    IF key \in DOMAIN map
    THEN [value |-> Some(map[key]), map |-> map]
    ELSE [value |-> None, map |-> map]

\* HashMap::remove(key): the value, if any, and the map without the key
HashMap_remove(map, key) ==
    IF key \in DOMAIN map
    THEN [value |-> Some(map[key]), map |-> [k \in DOMAIN map \ {key} |-> map[k]]]
    ELSE [value |-> None, map |-> map]

EmptyMap == [k \in {} |-> <<>>]

\* load_runways: the runway rows grouped by airport_ident, in table order;
\* the first row that does not deserialize makes it return Err.
RECURSIVE load_runways(_, _)
load_runways(rows, map) ==
    IF rows = <<>> THEN [ok |-> TRUE, map |-> map]
    ELSE IF ~Head(rows).wellformed THEN [ok |-> FALSE, map |-> map]
    ELSE LET runway == Runway_from(Head(rows)) IN
         load_runways(Tail(rows), HashMap_push(map, runway.airport, runway))

\* A stored or indexed field value of a document, tagged with its type.
StrValue(text) == [type |-> "Str", data |-> text]

\* The document write_index adds for an airport.
AirportDocument(airport) ==
    [identifier |-> StrValue(airport.ident),
     description |-> StrValue(airport.ident \o <<" ">> \o airport.name \o <<",", " ">>
                              \o airport.municipality \o <<",", " ">>
                              \o airport.iso_region \o <<",", " ">>
                              \o airport.iso_country),
     facet |-> <<airport.iso_country, airport.iso_region, airport.municipality,
                 airport.ident, airport.name>>,
     object |-> StrValue(Airport_to_json(airport))]

\* The loop of write_index over the airport rows: a row that does not
\* deserialize panics (unwrap); otherwise the airport takes its group of
\* runways out of the map and its document is added.
RECURSIVE WriteRows(_, _, _)
WriteRows(rows, runways, docs) ==
    IF rows = <<>> THEN [panic |-> FALSE, docs |-> docs]
    ELSE IF ~Head(rows).wellformed THEN [panic |-> TRUE, docs |-> docs]
    ELSE LET airport == Airport_from_template(Head(rows))
             taken == HashMap_remove(runways, airport.ident)
             withRunways == IF taken.value # None
                            THEN [airport EXCEPT !.runways = taken.value[1]]
                            ELSE airport
         IN WriteRows(Tail(rows), taken.map, Append(docs, AirportDocument(withRunways)))

\* write_index: the documents committed, or a panic before the commit.
write_index(airports, runways) ==
    LET loaded == load_runways(runways, EmptyMap) IN
    IF ~loaded.ok THEN [panic |-> TRUE, docs |-> <<>>]
    ELSE WriteRows(airports, loaded.map, <<>>)

NoStore == [exists |-> FALSE, docs |-> <<>>]
Closed == [open |-> FALSE, docs |-> <<>>]
NoAnswer == [kind |-> "none", airports |-> <<>>]

\* A variant that never deletes an existing store, whatever force says.
initialize_with_source_keep(store, airports, runways, force) ==
    IF ~store.exists
    THEN LET built == write_index(airports, runways) IN
         IF built.panic
         THEN [panic |-> TRUE, disk |-> [exists |-> TRUE, docs |-> <<>>], db |-> Closed]
         ELSE [panic |-> FALSE, disk |-> [exists |-> TRUE, docs |-> built.docs],
               db |-> [open |-> TRUE, docs |-> built.docs]]
    ELSE [panic |-> FALSE, disk |-> store, db |-> [open |-> TRUE, docs |-> store.docs]]

\* initialize_with_source, then Database::initialize's index.reader():
\* the store on disk, and the handle returned (none after a panic).
initialize_with_source(store, airports, runways, force) ==
    LET cleared == IF force /\ store.exists THEN NoStore ELSE store IN
    IF ~cleared.exists
    THEN LET built == write_index(airports, runways) IN
         IF built.panic
         THEN [panic |-> TRUE, disk |-> [exists |-> TRUE, docs |-> <<>>], db |-> Closed]
         ELSE [panic |-> FALSE, disk |-> [exists |-> TRUE, docs |-> built.docs],
               db |-> [open |-> TRUE, docs |-> built.docs]]
    ELSE [panic |-> FALSE, disk |-> cleared, db |-> [open |-> TRUE, docs |-> cleared.docs]]


(***************************************************************************)
(* database.rs: queries                                                    *)
(***************************************************************************)
\* The characters of the model that are neither letters nor digits.
NonAlphanumeric ==
    {AsciiOrder[i] : i \in {j \in 1..Len(AsciiOrder) :
        LET c == AsciiOrder[j] IN ~IsDigit(c) /\ ~IsUpper(c) /\ ~IsLower(c)}}

\* The analysis of a schema::TEXT field (tantivy's default tokenizer): the
\* maximal alphanumeric runs, lower-cased.
Tokenize(text) ==
    LET words == SplitOn(text, NonAlphanumeric, <<>>) IN
    [i \in 1..Len(words) |-> [j \in 1..Len(words[i]) |-> CharLower(words[i][j])]]

\* QueryParser::for_index(index, vec![field]).parse_query on one word: a
\* colon makes the word a field-qualified clause, and no field of the schema
\* has a name made of the characters of the model, so it is an error;
\* otherwise the word is analysed into the terms of a term or phrase query
\* on the default field.
parse_query(field, text) ==
    IF \E i \in 1..Len(text) : text[i] = ":"
    THEN [ok |-> FALSE, field |-> field, terms |-> <<>>]
    ELSE [ok |-> TRUE, field |-> field, terms |-> Tokenize(text)]

\* How many times the terms occur, adjacent and in order, in the tokens.
PhraseCount(terms, tokens) ==
    IF terms = <<>> THEN 0
    ELSE Cardinality({k \in 0..(Len(tokens) - Len(terms)) :
                        \A j \in 1..Len(terms) : tokens[k + j] = terms[j]})

\* The indexed tokens of a text field of each document, by address.
RECURSIVE FieldTokens(_, _)
FieldTokens(docs, field) ==
    IF docs = <<>> THEN <<>>
    ELSE <<Tokenize(Head(docs)[field].data)>> \o FieldTokens(Tail(docs), field)

\* BM25 with k1 = 1.2 and b = 0.75 orders two matches of one query by
\* tf / (tf + 0.3 + 0.9 * len / avglen); with avglen = total / count that
\* is the order of tf_a * (3 * total + 9 * len_b * count) against
\* tf_b * (3 * total + 9 * len_a * count). Equal scores: lower address first.
Outranks(tokens, terms, a, b) ==
    LET total == SumSeq([d \in 1..Len(tokens) |-> Len(tokens[d])])
        count == Len(tokens)
        tf(d) == PhraseCount(terms, tokens[d])
        norm(d) == 3 * total + 9 * Len(tokens[d]) * count
        left == tf(a) * norm(b)
        right == tf(b) * norm(a)
    IN left > right \/ (left = right /\ a < b)

\* TopDocs::with_limit(limit): the addresses of the best `limit` of the
\* candidates, best first.
RECURSIVE TopDocs(_, _, _, _)
TopDocs(tokens, terms, candidates, limit) ==
    IF limit = 0 \/ candidates = {} THEN <<>>
    ELSE LET best == CHOOSE a \in candidates :
                        \A b \in candidates \ {a} : Outranks(tokens, terms, a, b)
         IN <<best>> \o TopDocs(tokens, terms, candidates \ {best}, limit - 1)

\* The addresses of the documents the terms match.
Matches(tokens, terms) ==
    {d \in 1..Len(tokens) : PhraseCount(terms, tokens[d]) > 0}

\* searcher.search(query, &TopDocs::with_limit(limit)) for a parsed query.
Searcher_search(docs, q, limit) ==
    LET tokens == FieldTokens(docs, q.field) IN
    TopDocs(tokens, q.terms, Matches(tokens, q.terms), limit)

\* Value::as_bytes: the bytes of a Bytes value, None for any other type.
Value_as_bytes(value) == IF value.type = "Bytes" THEN Some(value.data) ELSE None

\* Database::materialize_query: each hit whose object field yields bytes
\* that deserialize becomes an Airport; every other hit is dropped.
materialize_query(docs, q, limit) ==
    LET hits == Searcher_search(docs, q, limit)
        data(h) == Value_as_bytes(docs[hits[h]].object)
        kept == SelectSeq([h \in 1..Len(hits) |-> h],
                          LAMBDA h : /\ data(h) # None
                                     /\ Airport_from_json(data(h)[1]) # None)
    IN [k \in 1..Len(kept) |-> Airport_from_json(data(kept[k])[1])[1]]

\* Database::by_identifier: Err when the query does not parse, else
\* Ok(first of at most one materialized hit).
by_identifier(docs, identifier) ==
    LET parsedQuery == parse_query("identifier", identifier) IN
    IF ~parsedQuery.ok THEN [kind |-> "err", airports |-> <<>>]
    ELSE [kind |-> "ok", airports |-> materialize_query(docs, parsedQuery, 1)]

\* Database::search: Err when the query does not parse, else Ok(the
\* materialized hits, at most 25).
search(docs, text) ==
    LET parsedQuery == parse_query("description", text) IN
    IF ~parsedQuery.ok THEN [kind |-> "err", airports |-> <<>>]
    ELSE [kind |-> "ok", airports |-> materialize_query(docs, parsedQuery, 25)]

\* The rows an airports table is made of: two rows with one identifier, a
\* lower-case hyphenated identifier, and a row that does not deserialize.
AirportRows ==
    {AirportRow(TRUE, <<"K", "E", "B">>, <<"N", "1">>, Some(10), 594, -1519),
     AirportRow(TRUE, <<"K", "E", "B">>, <<"N", "2">>, None, 612, -1499),
     AirportRow(TRUE, <<"u", "s", "-", "1">>, <<"N", "3">>, None, 515, -5),
     AirportRow(FALSE, <<>>, <<>>, None, 0, 0)}

\* The rows a runways table is made of.
RunwayRows ==
    {RunwayRow(TRUE, <<"K", "E", "B">>, Some(5000), 1, 0, <<"0", "7">>, <<"2", "5">>),
     RunwayRow(TRUE, <<"K", "E", "B">>, None, 0, 1, <<"0", "1">>, <<"1", "9">>),
     RunwayRow(TRUE, <<"u", "s", "-", "1">>, Some(900), 0, 0, <<"N">>, <<"S">>),
     RunwayRow(FALSE, <<>>, None, 0, 0, <<>>, <<>>)}

\* The identifiers looked up.
Queries ==
    {<<"K", "E", "B">>, <<"U", "S", "-", "1">>, <<"U", "S">>,
     <<"Z", "Z", "Z">>, <<"K", ":", "B">>}

\* The texts searched for: a word every description holds, more often in
\* some than in others; a word one name holds; a text that does not parse.
SearchTexts == {<<"U", "S">>, <<"N", "1">>, <<"K", ":", "B">>}

InitIndex ==
    /\ pc = "idle"
    /\ overflow_checks = FALSE
    /\ iter = NoIter
    /\ PairsIdle
    /\ CoordsIdle
    /\ DistIdle
    /\ airports_csv \in SeqsOf(AirportRows, 0, MaxAirports)
    /\ runways_csv \in SeqsOf(RunwayRows, 0, MaxRunways)
    /\ disk = NoStore
    /\ call = None
    /\ built_from = None
    /\ db = Closed
    /\ query = <<>>
    /\ result = NoAnswer
    /\ search_query = <<>>
    /\ search_result = NoAnswer

\* The sources initialize_with_source is called with: the embedded tables
\* (search::initialize) or tables supplied by the caller.
ExternalAirports ==
    <<AirportRow(TRUE, <<"P", "A", "N", "C">>, <<"N", "4">>, Some(152), 612, -1499)>>

ExternalRunways ==
    <<RunwayRow(TRUE, <<"P", "A", "N", "C">>, Some(10600), 1, 0, <<"0", "7">>, <<"2", "5">>)>>

Sources ==
    {[airports |-> airports_csv, runways |-> runways_csv],
     [airports |-> ExternalAirports, runways |-> ExternalRunways]}

\* A process opens the store: initialize_with_source(airports, runways,
\* force), then index.reader(). A panic ends the process without a handle.
\* The store on disk is created from the source whenever a build starts.
IndexInitialize ==
    \E force \in BOOLEAN, src \in Sources :
        LET r == initialize_with_source(disk, src.airports, src.runways, force) IN
        /\ pc = "idle"
        /\ disk' = r.disk
        /\ call' = Some([airports |-> src.airports, runways |-> src.runways,
                         force |-> force, existed |-> disk.exists])
        /\ built_from' = IF force \/ ~disk.exists THEN Some(src) ELSE built_from
        /\ db' = r.db
        /\ pc' = IF r.panic THEN "panic" ELSE "ready"
        /\ query' = <<>>
        /\ result' = NoAnswer
        /\ search_query' = <<>>
        /\ search_result' = NoAnswer
        /\ UNCHANGED <<overflow_checks, iter, pairsVars, coordsVars, distVars,
                       airports_csv, runways_csv>>

\* The handle has answered no query yet.
Unqueried == result = NoAnswer /\ search_result = NoAnswer

\* db.by_identifier(identifier). A query reads the handle and leaves it as
\* it was, so every answer is taken from the handle as initialize returned it.
IndexByIdentifier ==
    \E identifier \in Queries :
        /\ pc = "ready"
        /\ db.open
        /\ Unqueried
        /\ query' = identifier
        /\ result' = by_identifier(db.docs, identifier)
        /\ UNCHANGED <<pc, overflow_checks, iter, pairsVars, coordsVars, distVars,
                       airports_csv, runways_csv, disk, call, built_from, db,
                       search_query, search_result>>

\* db.search(text)
IndexSearch ==
    \E text \in SearchTexts :
        /\ pc = "ready"
        /\ db.open
        /\ Unqueried
        /\ search_query' = text
        /\ search_result' = search(db.docs, text)
        /\ UNCHANGED <<pc, overflow_checks, iter, pairsVars, coordsVars, distVars,
                       airports_csv, runways_csv, disk, call, built_from, db,
                       query, result>>

\* The process ends, by returning from main or by the panic: its handle is
\* dropped, the store directory stays as it is.
IndexExit ==
    /\ pc \in {"ready", "panic"}
    /\ pc' = "idle"
    /\ call' = None
    /\ db' = Closed
    /\ query' = <<>>
    /\ result' = NoAnswer
    /\ search_query' = <<>>
    /\ search_result' = NoAnswer
    /\ UNCHANGED <<overflow_checks, iter, pairsVars, coordsVars, distVars,
                   airports_csv, runways_csv, disk, built_from>>

NextIndex == IndexInitialize \/ IndexByIdentifier \/ IndexSearch \/ IndexExit

SpecIndex == InitIndex /\ [][NextIndex]_vars

AllWellformed(rows) == \A i \in 1..Len(rows) : rows[i].wellformed

\* The runway rows of the table whose airport_ident is ident, as Runways.
MatchingRunways(ident) ==
    LET rows == SelectSeq(runways_csv, LAMBDA r : r.airport_ident = ident) IN
    [i \in 1..Len(rows) |-> Runway_from(rows[i])]

\* The runways the stored payload of a document carries.
PayloadRunways(doc) == Airport_from_json(doc.object.data)[1].runways

Built ==
    /\ disk.exists
    /\ built_from = Some([airports |-> airports_csv, runways |-> runways_csv])
    /\ AllWellformed(airports_csv)
    /\ AllWellformed(runways_csv)

\* C8 as stated: after an index build each airport document carries
\* exactly the runway rows whose airport_ident equals its identifier.
C8_EveryDocumentCarriesItsRunways ==
    Built =>
        /\ Len(disk.docs) = Len(airports_csv)
        /\ \A i \in 1..Len(disk.docs) :
               PayloadRunways(disk.docs[i]) = MatchingRunways(airports_csv[i].ident)

\* C8, amended: after an index build, each airport document whose
\* identifier no earlier airport row carries holds exactly the runway rows
\* whose airport_ident equals its identifier, in table order (none of
\* another identifier, an empty list when no row matches); a document whose
\* identifier an earlier row already carried holds an empty runway list.
C8_FirstDocumentCarriesItsRunways ==
    Built =>
        /\ Len(disk.docs) = Len(airports_csv)
        /\ \A i \in 1..Len(disk.docs) :
               PayloadRunways(disk.docs[i]) =
                   IF \E j \in 1..(i - 1) : airports_csv[j].ident = airports_csv[i].ident
                   THEN <<>>
                   ELSE MatchingRunways(airports_csv[i].ident)

\* A store has been built in which the first airport carries both of its
\* runway rows and the second row repeats its identifier.
C8_Witness ==
    /\ Built
    /\ Len(disk.docs) = 2
    /\ airports_csv[1].ident = airports_csv[2].ident
    /\ Len(PayloadRunways(disk.docs[1])) = 2
    /\ Len(MatchingRunways(airports_csv[2].ident)) = 2

\* The record of row i of the airports table, with its runways.
RecordOf(i) ==
    [Airport_from_template(airports_csv[i]) EXCEPT
        !.runways = MatchingRunways(airports_csv[i].ident)]

\* C9: for every airport R of the dataset the store was built from,
\* looking up the upper-cased identifier of R returns a record equal to R,
\* runways included.
C9_LookupRoundTrip ==
    (Built /\ pc = "ready" /\ result.kind # "none") =>
        \A i \in 1..Len(airports_csv) :
            query = to_ascii_uppercase(airports_csv[i].ident) =>
                /\ result.kind = "ok"
                /\ result.airports = <<RecordOf(i)>>

IsIdentifierOfDataset(text) ==
    \E i \in 1..Len(airports_csv) :
        /\ airports_csv[i].wellformed
        /\ to_ascii_uppercase(airports_csv[i].ident) = to_ascii_uppercase(text)

\* C10: by_identifier returns at most one airport, and for an identifier
\* absent from the dataset it returns the empty result, never an error.
C10_AbsentIsNotFound ==
    (pc = "ready" /\ result.kind # "none") =>
        /\ Len(result.airports) <= 1
        /\ ~IsIdentifierOfDataset(query) =>
               (result.kind = "ok" /\ result.airports = <<>>)

\* The airport the stored payload of a document decodes to.
PayloadAirport(doc) == Airport_from_json(doc.object.data)[1]

\* The documents are, row for row, the airports of the table.
HoldsExactly(docs, airports) ==
    /\ Len(docs) = Len(airports)
    /\ \A i \in 1..Len(docs) :
           /\ docs[i].identifier.data = airports[i].ident
           /\ [PayloadAirport(docs[i]) EXCEPT !.runways = <<>>] =
                  Airport_from_template(airports[i])

\* C11: every call of initialize_with_source(airports, runways, force)
\* moves the store as follows. With force set and a store on disk, or with
\* no store on disk, a call that returns leaves and returns a store that
\* holds exactly the airports of the supplied source, nothing of the old
\* store. With a store on disk and force not set, the call returns that
\* store with its contents unchanged, nothing of the source written.
C11_StoreTransitions ==
    [][(pc = "idle" /\ call' # None) =>
          LET c == call'[1] IN
          /\ (c.force /\ disk.exists /\ pc' = "ready") =>
                 /\ HoldsExactly(disk'.docs, c.airports)
                 /\ db'.open /\ db'.docs = disk'.docs
          /\ (~disk.exists /\ pc' = "ready") =>
                 /\ HoldsExactly(disk'.docs, c.airports)
                 /\ db'.open /\ db'.docs = disk'.docs
          /\ (disk.exists /\ ~c.force) =>
                 /\ pc' = "ready"
                 /\ disk' = disk
                 /\ db'.open /\ db'.docs = disk.docs]_vars

\* A forced call over an existing store has rebuilt it from the supplied
\* tables, and the embedded tables hold other airports.
C11_Witness ==
    /\ pc = "ready"
    /\ call # None
    /\ call[1].force
    /\ call[1].existed
    /\ call[1].airports = ExternalAirports
    /\ airports_csv # <<>>
    /\ AllWellformed(airports_csv)
    /\ HoldsExactly(disk.docs, ExternalAirports)

\* C12: readers never see a half-built store. Every handle initialize
\* returns exposes all airports of the source the store on disk was created
\* from, never none or only some of them, and a store whose build was
\* aborted by a row that does not parse is never opened by a later call.
C12_NoHalfBuiltStore ==
    (pc = "ready" /\ db.open) =>
        /\ built_from # None
        /\ AllWellformed(built_from[1].airports)
        /\ AllWellformed(built_from[1].runways)
        /\ HoldsExactly(db.docs, built_from[1].airports)

\* The payload of a document is the text of an Airport.
Deserializes(doc) == Airport_from_json(doc.object.data) # None

\* The airports of the best `limit` matches of a query, best first, less
\* the matches whose payload is not the text of an Airport.
RemainingMatches(docs, q, limit) ==
    LET hits == Searcher_search(docs, q, limit)
        good == SelectSeq(hits, LAMBDA d : Deserializes(docs[d]))
    IN [k \in 1..Len(good) |-> PayloadAirport(docs[good[k]])]

\* C13: materialization never turns a bad document into a query error. A
\* query that parses returns Ok; a match whose payload does not deserialize
\* is left out; the remaining matches are returned, most relevant first;
\* and the result holds at most 25 airports for search, 1 for by_identifier.
C13_BadDocumentsAreSkipped ==
    /\ (pc = "ready" /\ result.kind # "none"
            /\ parse_query("identifier", query).ok) =>
           /\ result.kind = "ok"
           /\ Len(result.airports) <= 1
           /\ result.airports =
                  RemainingMatches(db.docs, parse_query("identifier", query), 1)
    /\ (pc = "ready" /\ search_result.kind # "none"
            /\ parse_query("description", search_query).ok) =>
           /\ search_result.kind = "ok"
           /\ Len(search_result.airports) <= 25
           /\ search_result.airports =
                  RemainingMatches(db.docs, parse_query("description", search_query), 25)

====
